---- MODULE Spec2Model ----
(***************************************************************************)
(* A model of src/src/App.jsx: the gallery's load cycle (directory picker, *)
(* recursive scan, concurrent materialisation into object URLs, publish),  *)
(* the navigation handlers, the per-index zoom memory and the object-URL   *)
(* cleanup effect.                                                         *)
(*                                                                         *)
(* Conventions.                                                            *)
(*  - A file name is a sequence of one-character strings.                  *)
(*  - selectedIndex and the keys of zoomStates are JavaScript indices      *)
(*    (0-based); the TLA+ sequence images holds index i at position i+1.   *)
(*  - A scale is kept in tenths (10 is 1.0, 5 is 0.5, 30 is 3.0).          *)
(*  - An object URL is a positive integer: the URL of the k-th file of a   *)
(*    batch is the number of files of the earlier batches plus k.          *)
(*  - One action is one event-loop turn of the handler together with the   *)
(*    render and effects React runs for the state it set (state updates    *)
(*    of one turn are batched into one render).                            *)
(***************************************************************************)
EXTENDS Integers, Sequences, FiniteSets, TLC

VARIABLES
    images,         \* useState([]): the published asset list
    selectedIndex,  \* useState(null)
    loading,        \* useState(false)
    zoomStates,     \* useRef({}).current: index -> {scale, positionX, positionY}
    transformRef,   \* useRef(null).current: the mounted TransformWrapper, if any
    mounted,        \* App is mounted (FALSE after a render threw or after teardown)
    renderError,    \* a render of App threw
    pc,             \* where handleOpenFolder stands: idle, prompt, scanning, materializing, alert
    dir,            \* dirHandle: the directory tree being loaded
    imageFiles,     \* the scanner's result list
    results,        \* per entry of imageFiles: 0 while getFile is pending, else its URL
    orphans,        \* the URLs that the still pending reads of rejected batches will create
    nextUrl,        \* number of files of the batches started so far
    live,           \* object URLs created and not revoked
    revoked,        \* object URLs revoked at least once
    doubleRevoked,  \* some URL was passed to revokeObjectURL twice
    touched,        \* history: the current load cycle changed images, selectedIndex or zoomStates
    outcome,        \* history: how the last load cycle ended: none, cancelled, failed, published
    everListed,     \* history: URLs that were ever part of a published list
    gestured,       \* history: the user changed pan/zoom in the mounted viewer
    leftWith,       \* history: the index the viewer last left with parameters the user had set, and these
    seen,           \* history: the indices the viewer has shown and left since the list was set
    completed       \* history: the entries of the batch in the order their reads resolved,
                    \* until the user acts on the page again

vars == <<images, selectedIndex, loading, zoomStates, transformRef, mounted, renderError,
          outcome, pc, dir,
          imageFiles, results, orphans, nextUrl, live, revoked, doubleRevoked,
          touched, everListed, gestured, leftWith, seen, completed>>

(***************************************************************************)
(* Bounds                                                                  *)
(***************************************************************************)
MaxUrls == 3        \* object URLs created in one behaviour
MaxWidth == 2       \* entries per directory in the scanner's input trees
MaxDepth == 1       \* nesting depth of the scanner's input trees

null == -1          \* JavaScript null for selectedIndex (never a valid index)

(***************************************************************************)
(* File names and the extension test of scanDirectory                      *)
(***************************************************************************)
allowedExt ==
    { <<"j","p","g">>, <<"j","p","e","g">>, <<"p","n","g">>,
      <<"g","i","f">>, <<"w","e","b","p">>, <<"b","m","p">> }

\* String.prototype.toLowerCase on the characters the model uses
LowerChar(c) ==
    CASE c = "J" -> "j" [] c = "P" -> "p" [] c = "G" -> "g" [] c = "N" -> "n"
      [] OTHER -> c

toLowerCase(s) == [k \in 1..Len(s) |-> LowerChar(s[k])]

\* String.prototype.split(sep): the pieces between the separators; a string
\* without the separator is the single piece
RECURSIVE split(_, _)
split(s, sep) ==
    IF \A k \in 1..Len(s) : s[k] # sep
    THEN <<s>>
    ELSE LET k == CHOOSE j \in 1..Len(s) :
                     s[j] = sep /\ \A m \in 1..(j-1) : s[m] # sep
         IN <<SubSeq(s, 1, k-1)>> \o split(SubSeq(s, k+1, Len(s)), sep)

\* Array.prototype.pop's return value: the last element
pop(a) == a[Len(a)]

\* line 31: entry.name.split('.').pop().toLowerCase()
ext(name) == toLowerCase(pop(split(name, ".")))

(***************************************************************************)
(* Directory trees and the recursive scanner                               *)
(***************************************************************************)
File(name) == [kind |-> "file", name |-> name, entries |-> <<>>]
Directory(name, entries) == [kind |-> "directory", name |-> name, entries |-> entries]

\* scanDirectory(handle): depth-first, in iteration order; a discovered file is
\* recorded with its handle (here: its path of child positions) and its name
RECURSIVE scanFrom(_, _, _)
scanFrom(handle, path, k) ==
    IF k > Len(handle.entries) THEN <<>>
    ELSE LET entry == handle.entries[k]
             here ==
                IF entry.kind = "file"
                THEN IF ext(entry.name) \in allowedExt
                     THEN << [handle |-> Append(path, k), name |-> entry.name] >>
                     ELSE <<>>
                ELSE IF entry.kind = "directory"
                     THEN scanFrom(entry, Append(path, k), 1)
                     ELSE <<>>
         IN here \o scanFrom(handle, path, k + 1)

scanDirectory(handle) == scanFrom(handle, <<>>, 1)

(***************************************************************************)
(* The pan/zoom component (react-zoom-pan-pinch), as far as App uses it    *)
(***************************************************************************)
\* lines 106-108: the default parameters
DefaultState == [scale |-> 10, positionX |-> 0, positionY |-> 0]

\* centerView(scale): the content (8 units) centred in the wrapper (20 units)
centerView(scale) ==
    [scale |-> scale,
     positionX |-> (200 - 8 * scale) \div 20,
     positionY |-> (200 - 8 * scale) \div 20]

\* parameters a user gesture can leave the viewer in
GestureStates == { [scale |-> 30, positionX |-> -4, positionY |-> 7] }

\* transformRef.current when no TransformWrapper is mounted
NoViewer ==
    [key |-> null, initialState |-> DefaultState, centerOnInit |-> FALSE,
     transformState |-> DefaultState, loaded |-> FALSE]

EmptyZoom == [k \in {} |-> DefaultState]

\* (mutant of ZoomPut: the entry is written under the index after i)
ZoomPutShifted(zs, i, ts) ==
    [k \in DOMAIN zs \cup {i + 1} |-> IF k = i + 1 THEN ts ELSE zs[k]]

\* zoomStates.current[i] = ts
ZoomPut(zs, i, ts) == [k \in DOMAIN zs \cup {i} |-> IF k = i THEN ts ELSE zs[k]]

\* lines 106-108
initialState(sel, zs) ==
    IF sel # null /\ sel \in DOMAIN zs THEN zs[sel] ELSE DefaultState

\* lines 163-172: the element rendered with key={selectedIndex}; an element whose
\* key is unchanged stays mounted and keeps its transform state
TransformWrapper(sel, zs, old) ==
    IF sel = null THEN NoViewer
    ELSE IF old.key = sel THEN old
    ELSE [key |-> sel,
          initialState |-> initialState(sel, zs),
          centerOnInit |-> sel \notin DOMAIN zs,
          transformState |-> IF sel \notin DOMAIN zs
                             THEN centerView(initialState(sel, zs).scale)
                             ELSE initialState(sel, zs),
          loaded |-> FALSE]

(***************************************************************************)
(* Rendering, the cleanup effect and the commit of one turn                *)
(***************************************************************************)
Urls(imgs) == { imgs[k].url : k \in 1..Len(imgs) }

\* lines 177 and 192: images[selectedIndex].url and .name are read whenever
\* selectedIndex is not null; on a missing element the render throws
RenderThrows(imgs, sel) == sel # null /\ ~(sel < Len(imgs))

\* (mutant of EffectCleanup: the cleanup revokes the list that was just set)
EffectCleanupRevokesNewList(prevImages, nextImages) ==
    IF nextImages # prevImages THEN Urls(nextImages) ELSE {}

\* lines 71-75: when images changes, the cleanup of the previous effect revokes
\* the URLs of the list it closed over
EffectCleanup(prevImages, nextImages) ==
    IF nextImages # prevImages THEN Urls(prevImages) ELSE {}

\* URL.revokeObjectURL on each of urls
Revoke(urls) ==
    /\ revoked' = revoked \cup urls
    /\ live' = live \ urls
    /\ doubleRevoked' = (doubleRevoked \/ (urls \cap revoked # {}))

\* history: the viewer leaves its index for newKey; nav says that it does so by
\* next, prev or close.  leftWith remembers the latest index so left with
\* parameters the user had set, until the viewer has been opened on that index
\* again and left it
NotLeft == [index |-> null, state |-> DefaultState]

Leave(newKey, newImgs, nav) ==
    /\ gestured' = IF newKey = transformRef.key THEN gestured ELSE FALSE
    /\ leftWith' =
         IF newImgs # images THEN NotLeft
         ELSE IF transformRef.key = null \/ newKey = transformRef.key THEN leftWith
         ELSE IF gestured /\ nav
              THEN [index |-> transformRef.key, state |-> transformRef.transformState]
              ELSE IF leftWith.index = transformRef.key THEN NotLeft ELSE leftWith
    /\ seen' =
         IF newImgs # images THEN {}
         ELSE IF transformRef.key = null \/ newKey = transformRef.key THEN seen
         ELSE seen \cup {transformRef.key}

\* The render and effects after a turn that set the state to (imgs, sel, ld),
\* with zs the zoom memory the render reads.  A state update of an unmounted
\* component is dropped; a render that throws unmounts App, which runs the
\* cleanup of the last committed effect.
Commit(imgs, sel, ld, zs, nav) ==
    IF ~mounted
    THEN UNCHANGED <<images, selectedIndex, loading, transformRef, mounted, renderError,
                     live, revoked, doubleRevoked, everListed, gestured, leftWith, seen>>
    ELSE /\ images' = imgs
         /\ selectedIndex' = sel
         /\ loading' = ld
         /\ everListed' = everListed \cup Urls(imgs)
         /\ IF RenderThrows(imgs, sel)
            THEN /\ mounted' = FALSE
                 /\ renderError' = TRUE
                 /\ transformRef' = NoViewer
                 /\ Revoke(Urls(images))
                 /\ gestured' = FALSE
                 /\ leftWith' = NotLeft
                 /\ seen' = {}
            ELSE /\ mounted' = TRUE
                 /\ renderError' = FALSE
                 /\ transformRef' = TransformWrapper(sel, zs, transformRef)
                 /\ Revoke(EffectCleanup(images, imgs))
                 /\ Leave(sel, imgs, nav)

(***************************************************************************)
(* Inputs                                                                  *)
(***************************************************************************)
Name_a_png == <<"a", ".", "p", "n", "g">>
Name_B_JPG == <<"B", ".", "J", "P", "G">>
Name_b_jpg == <<"b", ".", "j", "p", "g">>
Name_c_txt == <<"c", ".", "t", "x", "t">>
Name_png   == <<"p", "n", "g">>
Name_dot_bmp == <<".", "b", "m", "p">>
Name_x_png_txt == <<"x", ".", "p", "n", "g", ".", "t", "x", "t">>
Name_sub   == <<"s", "u", "b">>
Name_root  == <<"r", "o", "o", "t">>

\* the directories the user can pick in a gallery session
DirPool ==
    { Directory(Name_root, << File(Name_a_png),
                              Directory(Name_sub, << File(Name_b_jpg), File(Name_c_txt) >>) >>),
      Directory(Name_root, << File(Name_a_png), File(Name_B_JPG), File(Name_dot_bmp) >>),
      Directory(Name_root, << File(Name_c_txt), File(Name_x_png_txt) >>),
      Directory(Name_root, << Directory(Name_a_png, << File(Name_dot_bmp) >>) >>) }

\* err.name of the rejections the platform produces
PickerErrors == {"TypeError", "SecurityError"}      \* capability missing, access refused
ReadErrors == {"NotAllowedError", "NotFoundError"}   \* permission revoked, file gone

KeyNames == {"ArrowRight", "ArrowLeft", "Escape"}

(***************************************************************************)
(* Initial state: App as constructed (lines 7-13)                          *)
(***************************************************************************)
Init ==
    /\ images = <<>>
    /\ selectedIndex = null
    /\ loading = FALSE
    /\ zoomStates = EmptyZoom
    /\ transformRef = NoViewer
    /\ mounted = TRUE
    /\ renderError = FALSE
    /\ outcome = "none"
    /\ pc = "idle"
    /\ dir = Directory(Name_root, <<>>)
    /\ imageFiles = <<>>
    /\ results = <<>>
    /\ orphans = {}
    /\ nextUrl = 0
    /\ live = {}
    /\ revoked = {}
    /\ doubleRevoked = FALSE
    /\ touched = FALSE
    /\ everListed = {}
    /\ gestured = FALSE
    /\ leftWith = NotLeft
    /\ seen = {}
    /\ completed = <<>>

(***************************************************************************)
(* handleOpenFolder (lines 16-68)                                          *)
(***************************************************************************)
\* (mutant of Alerts: the catch block alerts on every error)
AlertsOnEveryError(errName) == TRUE

\* line 61: the catch block alerts unless the error is the picker's AbortError
Alerts(errName) == errName # "AbortError"

\* line 66: finally setLoading(false); the call is over
Finally(how) ==
    /\ outcome' = how
    /\ touched' = FALSE
    /\ Commit(images, selectedIndex, FALSE, zoomStates, FALSE)
    /\ pc' = "idle"
    /\ dir' = Directory(Name_root, <<>>)
    /\ imageFiles' = <<>>
    /\ results' = <<>>
    /\ completed' = <<>>
    /\ UNCHANGED zoomStates

\* lines 60-67: an error reaches the catch block.  alert() blocks the page until
\* the user dismisses it, so the finally block runs in AlertDismiss
CatchFinally(errName) ==
    IF Alerts(errName)
    THEN /\ pc' = "alert"
         /\ UNCHANGED <<outcome, images, selectedIndex, loading, zoomStates, transformRef,
                        mounted, renderError, dir, imageFiles, results, live, revoked,
                        doubleRevoked, touched, everListed, gestured, leftWith, seen,
                        completed>>
    ELSE Finally("cancelled")

\* line 63 returns: the user dismissed the alert
AlertDismiss ==
    /\ pc = "alert"
    /\ Finally("failed")
    /\ UNCHANGED <<orphans, nextUrl>>

\* line 120: disabled={loading} on the Open Folder button
openFolderDisabled == loading

\* line 120: the button is enabled while loading is false; line 19 opens the
\* platform's directory chooser, which is modal: no page event is delivered
\* until it settles, hence the pc guards of the user's actions
OpenFolder ==
    /\ mounted /\ ~openFolderDisabled /\ pc = "idle"
    /\ pc' = "prompt"
    /\ touched' = FALSE
    /\ outcome' = "none"
    /\ UNCHANGED <<images, selectedIndex, loading, zoomStates, transformRef, mounted,
                   renderError, dir, imageFiles, results, orphans, nextUrl, live,
                   revoked, doubleRevoked, everListed, gestured, leftWith, seen>>
    /\ completed' = <<>>

\* line 19 rejects with AbortError: the user dismissed the chooser
PickerCancel ==
    /\ pc = "prompt"
    /\ CatchFinally("AbortError")
    /\ UNCHANGED <<orphans, nextUrl>>

\* line 19 throws or rejects with another error
PickerFail(errName) ==
    /\ pc = "prompt"
    /\ CatchFinally(errName)
    /\ UNCHANGED <<orphans, nextUrl>>

\* (mutant of resetZoomStates: line 22 is missing)
keepZoomStates == zoomStates

\* line 22: zoomStates.current = {}
resetZoomStates == EmptyZoom

\* lines 19-22: the chooser resolves with d; setLoading(true), setImages([]),
\* zoomStates.current = {}.  (The guard on nextUrl bounds the number of URLs.)
PickerResolve(d) ==
    /\ pc = "prompt"
    /\ nextUrl + Len(scanDirectory(d)) <= MaxUrls
    /\ pc' = "scanning"
    /\ dir' = d
    /\ zoomStates' = resetZoomStates
    /\ Commit(<<>>, selectedIndex, TRUE, resetZoomStates, FALSE)
    /\ touched' = (images' # images \/ selectedIndex' # selectedIndex
                       \/ zoomStates' # zoomStates)
    /\ UNCHANGED <<imageFiles, results, orphans, nextUrl, outcome, completed>>

\* lines 28-42: the walk returns
ScanComplete ==
    /\ pc = "scanning"
    /\ imageFiles' = scanDirectory(dir)
    /\ results' = [k \in 1..Len(scanDirectory(dir)) |-> 0]
    /\ nextUrl' = nextUrl + Len(scanDirectory(dir))
    /\ pc' = "materializing"
    /\ UNCHANGED <<images, selectedIndex, loading, zoomStates, transformRef, mounted,
                   renderError, dir, orphans, live, revoked, doubleRevoked,
                   touched, outcome, everListed, gestured, leftWith, seen, completed>>

\* lines 29, 37: an entry read rejects during the walk
ScanFail(errName) ==
    /\ pc = "scanning"
    /\ CatchFinally(errName)
    /\ UNCHANGED <<orphans, nextUrl>>

\* line 52: the URL that URL.createObjectURL returns for entry k of the batch
createObjectURL(k) == nextUrl - Len(results) + k

\* lines 49-54: getFile of entry k resolves and its object URL is created
GetFileDone(k) ==
    /\ pc = "materializing"
    /\ k \in 1..Len(results) /\ results[k] = 0
    /\ live' = live \cup {createObjectURL(k)}
    /\ results' = [results EXCEPT ![k] = createObjectURL(k)]
    /\ completed' = Append(completed, k)
    /\ UNCHANGED <<images, selectedIndex, loading, zoomStates, transformRef, mounted,
                   renderError, pc, dir, imageFiles, orphans, nextUrl, revoked,
                   doubleRevoked, touched, outcome, everListed, gestured, leftWith, seen>>

\* line 49: getFile of entry k rejects; Promise.all rejects at once, the other
\* pending reads go on without anyone waiting for them
GetFileFail(k, errName) ==
    /\ pc = "materializing"
    /\ k \in 1..Len(results) /\ results[k] = 0
    /\ orphans' = orphans \cup { createObjectURL(j) :
                                 j \in {i \in 1..Len(results) : i # k /\ results[i] = 0} }
    /\ CatchFinally(errName)
    /\ UNCHANGED nextUrl

\* (mutant of loadedImages: the entries are collected in the order in which
\* their reads completed)
loadedImagesInCompletionOrder ==
    [j \in 1..Len(imageFiles) |->
        [name |-> imageFiles[completed[j]].name, url |-> results[completed[j]],
         handle |-> imageFiles[completed[j]].handle]]

\* lines 47-58, 66: every read resolved; setImages(loadedImages), setLoading(false)
loadedImages ==
    [k \in 1..Len(imageFiles) |->
        [name |-> imageFiles[k].name, url |-> results[k], handle |-> imageFiles[k].handle]]

\* (mutant of Publish: the list is published as soon as one read has resolved)
PublishWithoutJoin ==
    /\ pc = "materializing"
    /\ \E k \in 1..Len(results) : results[k] # 0
    /\ Commit(loadedImages, selectedIndex, FALSE, zoomStates, FALSE)
    /\ pc' = "idle"
    /\ dir' = Directory(Name_root, <<>>)
    /\ imageFiles' = <<>>
    /\ results' = <<>>
    /\ touched' = FALSE
    /\ outcome' = "published"
    /\ UNCHANGED <<zoomStates, orphans, nextUrl, completed>>

Publish ==
    /\ pc = "materializing"
    /\ \A k \in 1..Len(results) : results[k] # 0
    /\ Commit(loadedImages, selectedIndex, FALSE, zoomStates, FALSE)
    /\ pc' = "idle"
    /\ dir' = Directory(Name_root, <<>>)
    /\ imageFiles' = <<>>
    /\ results' = <<>>
    /\ touched' = FALSE
    /\ outcome' = "published"
    /\ UNCHANGED <<zoomStates, orphans, nextUrl, completed>>

\* a read left over from a rejected batch resolves: lines 49-54 still run
OrphanDone ==
    /\ pc # "alert"
    /\ \E u \in orphans :
          /\ orphans' = orphans \ {u}
          /\ live' = live \cup {u}
    /\ UNCHANGED <<images, selectedIndex, loading, zoomStates, transformRef, mounted,
                   renderError, pc, dir, imageFiles, results, nextUrl, revoked,
                   doubleRevoked, touched, outcome, everListed, gestured, leftWith, seen,
                   completed>>

\* a read left over from a rejected batch rejects as well
OrphanFail ==
    /\ pc # "alert"
    /\ \E u \in orphans : orphans' = orphans \ {u}
    /\ UNCHANGED <<images, selectedIndex, loading, zoomStates, transformRef, mounted,
                   renderError, pc, dir, imageFiles, results, nextUrl, live, revoked,
                   doubleRevoked, touched, outcome, everListed, gestured, leftWith, seen,
                   completed>>

(***************************************************************************)
(* Navigation (lines 78-104, 138, 150-160)                                 *)
(***************************************************************************)
navFrame == <<pc, dir, imageFiles, results, orphans, nextUrl, touched, outcome>>

\* history: the completion order of the batch just published is forgotten when
\* the user acts on the page
ForgetCompleted == completed' = IF pc = "idle" THEN <<>> ELSE completed

\* the user can act on the page: App is rendered and neither the chooser nor an
\* alert is open
Interactive == mounted /\ pc \notin {"prompt", "alert"}

\* lines 78-83: the zoom memory after saveCurrentState()
saveCurrentState ==
    IF transformRef.key # null /\ selectedIndex # null
    THEN ZoomPut(zoomStates, selectedIndex, transformRef.transformState)
    ELSE zoomStates

\* (mutant of NextIndex: the bound test is off by one)
NextIndexOffByOne(prev, length) == IF prev + 1 <= length THEN prev + 1 ELSE prev

\* line 87: the updater of handleNext
NextIndex(prev, length) == IF prev + 1 < length THEN prev + 1 ELSE prev

\* line 92: the updater of handlePrev
PrevIndex(prev) == IF prev - 1 >= 0 THEN prev - 1 ELSE prev

\* lines 85-88
handleNext ==
    /\ zoomStates' = saveCurrentState
    /\ Commit(images, NextIndex(selectedIndex, Len(images)), loading, saveCurrentState, TRUE)
    /\ UNCHANGED navFrame
    /\ ForgetCompleted

\* lines 90-93
handlePrev ==
    /\ zoomStates' = saveCurrentState
    /\ Commit(images, PrevIndex(selectedIndex), loading, saveCurrentState, TRUE)
    /\ UNCHANGED navFrame
    /\ ForgetCompleted

\* lines 100, 158: setSelectedIndex(null)
closeViewer ==
    /\ Commit(images, null, loading, zoomStates, TRUE)
    /\ UNCHANGED zoomStates
    /\ UNCHANGED navFrame
    /\ ForgetCompleted

\* line 138: a click on grid card i
Open(i) ==
    /\ Interactive
    /\ i \in 0..(Len(images) - 1)
    /\ Commit(images, i, loading, zoomStates, FALSE)
    /\ UNCHANGED zoomStates
    /\ UNCHANGED navFrame
    /\ ForgetCompleted

\* line 154: the next button, disabled at the last index
ClickNext ==
    /\ Interactive
    /\ selectedIndex # null
    /\ selectedIndex # Len(images) - 1
    /\ handleNext

\* line 150: the prev button, disabled at index 0
ClickPrev ==
    /\ Interactive
    /\ selectedIndex # null
    /\ selectedIndex # 0
    /\ handlePrev

\* line 158: the close button
ClickClose ==
    /\ Interactive
    /\ selectedIndex # null
    /\ closeViewer

\* (mutant of handleKeyDown: the test of line 97 is missing)
handleKeyDownWithoutGuard(key) ==
    CASE key = "ArrowRight" -> handleNext
      [] key = "ArrowLeft" -> handlePrev
      [] key = "Escape" -> closeViewer
      [] OTHER -> UNCHANGED vars

\* lines 96-101: the window's keydown listener
handleKeyDown(key) ==
    IF selectedIndex = null THEN UNCHANGED vars
    ELSE CASE key = "ArrowRight" -> handleNext
           [] key = "ArrowLeft" -> handlePrev
           [] key = "Escape" -> closeViewer
           [] OTHER -> UNCHANGED vars

KeyDown(key) ==
    /\ Interactive
    /\ handleKeyDown(key)

\* lines 181-183: the viewer's image finished loading
ImgLoad ==
    /\ Interactive
    /\ transformRef.key # null
    /\ ~transformRef.loaded
    /\ transformRef' =
         [transformRef EXCEPT
            !.loaded = TRUE,
            !.transformState = IF selectedIndex \notin DOMAIN zoomStates
                               THEN centerView(5) ELSE @]
    /\ gestured' = IF selectedIndex \notin DOMAIN zoomStates THEN FALSE ELSE gestured
    /\ UNCHANGED <<images, selectedIndex, loading, zoomStates, mounted, renderError,
                   live, revoked, doubleRevoked, everListed, leftWith, seen>>
    /\ UNCHANGED navFrame
    /\ ForgetCompleted

\* the pan/zoom component handles a drag, pinch or wheel gesture
Gesture(ts) ==
    /\ Interactive
    /\ transformRef.key # null
    /\ transformRef' = [transformRef EXCEPT !.transformState = ts]
    /\ gestured' = TRUE
    /\ UNCHANGED <<images, selectedIndex, loading, zoomStates, mounted, renderError,
                   live, revoked, doubleRevoked, everListed, leftWith, seen>>
    /\ UNCHANGED navFrame
    /\ ForgetCompleted

\* lines 71-75: App unmounts; the effect's cleanup revokes the current list's URLs
Teardown ==
    /\ Interactive
    /\ mounted' = FALSE
    /\ transformRef' = NoViewer
    /\ Revoke(Urls(images))
    /\ gestured' = FALSE
    /\ leftWith' = NotLeft
    /\ seen' = seen \cup ({transformRef.key} \ {null})
    /\ UNCHANGED <<images, selectedIndex, loading, zoomStates, everListed, renderError>>
    /\ UNCHANGED navFrame
    /\ ForgetCompleted

Next ==
    \/ OpenFolder
    \/ PickerCancel
    \/ \E e \in PickerErrors : PickerFail(e)
    \/ \E d \in DirPool : PickerResolve(d)
    \/ ScanComplete
    \/ \E e \in ReadErrors : ScanFail(e)
    \/ \E k \in 1..MaxUrls : GetFileDone(k)
    \/ \E k \in 1..MaxUrls, e \in ReadErrors : GetFileFail(k, e)
    \/ AlertDismiss
    \/ Publish
    \/ OrphanDone
    \/ OrphanFail
    \/ \E i \in 0..(MaxUrls - 1) : Open(i)
    \/ ClickNext
    \/ ClickPrev
    \/ ClickClose
    \/ \E key \in KeyNames : KeyDown(key)
    \/ ImgLoad
    \/ \E ts \in GestureStates : Gesture(ts)
    \/ Teardown

Spec == Init /\ [][Next]_vars

(***************************************************************************)
(* The scanner on its own: every tree of bounded width and depth is        *)
(* scanned once                                                            *)
(***************************************************************************)
FileNames == {Name_a_png, Name_B_JPG, Name_c_txt, Name_png, Name_dot_bmp, Name_x_png_txt}
DirNames == {Name_sub, Name_a_png}

RECURSIVE EntrySeqs(_)
EntrySeqs(depth) ==
    LET Entries ==
            { File(n) : n \in FileNames }
            \cup (IF depth = 0 THEN {}
                  ELSE { Directory(n, es) : n \in DirNames, es \in EntrySeqs(depth - 1) })
    IN UNION { [1..w -> Entries] : w \in 0..MaxWidth }

Trees == { Directory(Name_root, es) : es \in EntrySeqs(MaxDepth) }

ScanInit ==
    /\ images = <<>>
    /\ selectedIndex = null
    /\ loading = TRUE
    /\ zoomStates = EmptyZoom
    /\ transformRef = NoViewer
    /\ mounted = TRUE
    /\ renderError = FALSE
    /\ outcome = "none"
    /\ pc = "scanning"
    /\ dir \in Trees
    /\ imageFiles = <<>>
    /\ results = <<>>
    /\ orphans = {}
    /\ nextUrl = 0
    /\ live = {}
    /\ revoked = {}
    /\ doubleRevoked = FALSE
    /\ touched = FALSE
    /\ everListed = {}
    /\ gestured = FALSE
    /\ leftWith = NotLeft
    /\ seen = {}
    /\ completed = <<>>

ScanNext ==
    \/ ScanComplete
    \/ \E e \in ReadErrors : ScanFail(e)
    \/ AlertDismiss

ScanSpec == ScanInit /\ [][ScanNext]_vars

(***************************************************************************)
(* Properties                                                              *)
(***************************************************************************)
Min(a, b) == IF a < b THEN a ELSE b
Max(a, b) == IF a > b THEN a ELSE b

\* App was unmounted by teardown, not by a render error
TornDown == ~mounted /\ ~renderError

\* C1: in every reachable state selectedIndex is none or a valid index of the
\* asset list currently held
C1_SelectedIndexInRange ==
    selectedIndex = null \/ (0 <= selectedIndex /\ selectedIndex < Len(images))

\* C2: the step that publishes the list of a successful load cycle leaves the
\* store holding exactly the materialised entries, with selectedIndex none
C2_PublishHoldsListAndNoSelection ==
    [][(Publish /\ ~TornDown) =>
          (images' = loadedImages /\ selectedIndex' = null)]_vars

\* C3: with a selection i in a list of length L >= 1, next (button or right
\* arrow) sets selectedIndex to min(i+1, L-1) and prev (button or left arrow)
\* sets it to max(i-1, 0)
C3_NextPrevClamp ==
    [][ /\ (selectedIndex # null /\ (ClickNext \/ KeyDown("ArrowRight")))
            => selectedIndex' = Min(selectedIndex + 1, Len(images) - 1)
        /\ (selectedIndex # null /\ (ClickPrev \/ KeyDown("ArrowLeft")))
            => selectedIndex' = Max(selectedIndex - 1, 0) ]_vars

\* C3 witness: in a list of three, the viewer was mounted on the last index with
\* no remembered zoom and has a zoom entry now: a next event arrived at the
\* bound and the viewer stayed where it was
C3_NextAtLastIndexStayed ==
    /\ mounted
    /\ Len(images) = 3
    /\ selectedIndex = 2
    /\ transformRef.centerOnInit
    /\ 2 \in DOMAIN zoomStates

\* C4: when the viewer is opened on the index it last left (by next, prev or
\* close) with parameters the user had set, it is initialised with these
C4_ReopenRestoresParameters ==
    (mounted /\ transformRef.key # null /\ leftWith.index = transformRef.key)
        => transformRef.initialState = leftWith.state

\* the extension test as the specification words it: the part after the final
\* '.', lower-cased, is allowed; a name without '.' has no extension
HasAllowedExtension(name) ==
    \E k \in 1..Len(name) :
        /\ name[k] = "."
        /\ \A j \in (k+1)..Len(name) : name[j] # "."
        /\ toLowerCase(SubSeq(name, k + 1, Len(name))) \in allowedExt

\* the files of a tree, at any depth, that have an allowed extension
RECURSIVE ImageFilePaths(_, _)
ImageFilePaths(handle, path) ==
    UNION { IF handle.entries[k].kind = "file"
            THEN IF HasAllowedExtension(handle.entries[k].name)
                 THEN { Append(path, k) } ELSE {}
            ELSE ImageFilePaths(handle.entries[k], Append(path, k))
          : k \in 1..Len(handle.entries) }

\* C5: the scanner's result holds exactly the files of the tree, at any depth,
\* whose extension is allowed, each once
C5_ScanFindsExactlyTheImageFiles ==
    pc = "materializing" =>
        /\ { imageFiles[k].handle : k \in 1..Len(imageFiles) } = ImageFilePaths(dir, <<>>)
        /\ Len(imageFiles) = Cardinality(ImageFilePaths(dir, <<>>))

\* C6: in the state where a new list becomes the current one, every URL of the
\* lists held before is revoked and the zoom memory is empty
C6_ReplaceRevokesAndResets ==
    [][(images' # images /\ images' # <<>>) =>
          /\ zoomStates' = EmptyZoom
          /\ (everListed \ Urls(images')) \subseteq revoked']_vars

\* C6 witness: a non-empty list is current, after another list whose URLs are
\* revoked
C6_SecondListPublished ==
    /\ mounted
    /\ images # <<>>
    /\ everListed \ Urls(images) # {}
    /\ outcome = "published"

\* C7: no URL is revoked twice, and no URL that the rendered grid or viewer
\* uses as an image source is revoked
C7_RevokedOnceNeverShown ==
    /\ ~doubleRevoked
    /\ mounted => Urls(images) \cap revoked = {}

\* C7 witness: the viewer shows an image of a list that replaced a revoked one
C7_ViewerAfterRevocation ==
    /\ mounted
    /\ selectedIndex # null
    /\ revoked # {}
    /\ images[selectedIndex + 1].url \in live

\* C8: the live URLs never outnumber the current asset list
C8_LiveUrlsWithinList == Cardinality(live) <= Len(images)

\* C9: a load cycle that fails other than by cancellation shows the alert, and
\* ends with loading false and images, selectedIndex and zoomStates as they
\* were when Open Folder was clicked
C9_FailureAlertsAndLeavesGalleryUntouched ==
    [][ /\ ( \/ \E e \in PickerErrors : PickerFail(e)
             \/ \E e \in ReadErrors : ScanFail(e)
             \/ \E k \in 1..MaxUrls, e \in ReadErrors : GetFileFail(k, e) )
            => pc' = "alert"
        /\ (AlertDismiss /\ ~TornDown) => (~loading' /\ ~touched) ]_vars

\* C10: a cancelled prompt ends the action with no alert, loading false and
\* images, selectedIndex, zoomStates and the live URLs unchanged; every other
\* failure shows the alert
C10_CancelIsSilentNoOp ==
    [][ /\ PickerCancel =>
              /\ pc' = "idle"
              /\ ~loading'
              /\ UNCHANGED <<images, selectedIndex, zoomStates, live>>
        /\ ( \/ \E e \in PickerErrors : PickerFail(e)
             \/ \E e \in ReadErrors : ScanFail(e)
             \/ \E k \in 1..MaxUrls, e \in ReadErrors : GetFileFail(k, e) )
            => pc' = "alert" ]_vars

\* C10 witness: the prompt over a gallery with a list, remembered zoom and live
\* URLs was cancelled
C10_CancelledOverLoadedGallery ==
    /\ outcome = "cancelled"
    /\ pc = "idle"
    /\ images # <<>>
    /\ zoomStates # EmptyZoom
    /\ live # {}

\* C11: loading is true in exactly the states in which a scan or a
\* materialisation is in progress, so that every load cycle that has ended has
\* left loading false
C11_LoadingIffScanInProgress ==
    ~TornDown => (loading <=> pc \in {"scanning", "materializing"})

\* C12: the asset list only ever changes to the empty list or to the complete
\* list of the cycle being materialised: one entry per discovered file, each
\* with the object URL of a read that resolved; never a part of it
C12_PublishedListAllOrNothing ==
    [][ /\ images' # images =>
              \/ images' = <<>>
              \/ /\ pc = "materializing"
                 /\ Len(images') = Len(scanDirectory(dir))
                 /\ { images'[k].handle : k \in 1..Len(images') }
                        = { scanDirectory(dir)[k].handle : k \in 1..Len(scanDirectory(dir)) }
        /\ \A k \in 1..Len(images') : images'[k].url \in 1..nextUrl ]_vars

\* C12 witness: a batch in which one read resolved and another one rejected has
\* reached the catch block, and the list is empty
C12_PartialBatchNotPublished ==
    /\ mounted
    /\ pc = "alert"
    /\ \E k \in 1..Len(results) : results[k] # 0
    /\ \E k \in 1..Len(results) : results[k] = 0
    /\ images = <<>>

\* C13: from the click on Open Folder until its call has completed, the prompt
\* included, the Open Folder button is disabled
C13_OpenFolderDisabledDuringCycle ==
    (mounted /\ pc # "idle") => openFolderDisabled

\* C14: a right-arrow, left-arrow or escape key pressed while selectedIndex is
\* none leaves selectedIndex, the asset list and the zoom memory unchanged;
\* with a selection, right-arrow is a step of handleNext, left-arrow of
\* handlePrev and escape of the close handler
C14_KeysOnlyWithSelection ==
    [][ \A key \in KeyNames :
          KeyDown(key) =>
             IF selectedIndex = null
             THEN UNCHANGED <<selectedIndex, images, zoomStates>>
             ELSE /\ key = "ArrowRight" => handleNext
                  /\ key = "ArrowLeft" => handlePrev
                  /\ key = "Escape" => closeViewer ]_vars

\* C14 witness: in a list of two or more, the viewer was mounted on index 0
\* with no remembered zoom and index 0 has a zoom entry now: a left-arrow
\* (the prev button is disabled there) ran handlePrev and the viewer stayed
C14_LeftArrowAtFirstIndex ==
    /\ mounted
    /\ Len(images) >= 2
    /\ selectedIndex = 0
    /\ transformRef.centerOnInit
    /\ 0 \in DOMAIN zoomStates

\* C15: a next or prev event (button or arrow key) while the viewer shows
\* index i stores the viewer's current scale and position under i, adds no
\* other key to the zoom memory and leaves every other entry as it was
C15_NavSavesCurrentIndexOnly ==
    [][ ( /\ selectedIndex # null
          /\ (ClickNext \/ ClickPrev \/ KeyDown("ArrowRight") \/ KeyDown("ArrowLeft")) )
        => /\ DOMAIN zoomStates' = DOMAIN zoomStates \cup {selectedIndex}
           /\ zoomStates'[selectedIndex] = transformRef.transformState
           /\ \A k \in DOMAIN zoomStates \ {selectedIndex} :
                  zoomStates'[k] = zoomStates[k] ]_vars

\* C15 witness: after several next/prev events the zoom memory holds two
\* entries, one of them the parameters a gesture had set on an index that the
\* viewer has left
C15_TwoIndicesSaved ==
    /\ mounted
    /\ selectedIndex # null
    /\ Cardinality(DOMAIN zoomStates) >= 2
    /\ \E i \in DOMAIN zoomStates :
          i # selectedIndex /\ zoomStates[i] \in GestureStates

\* C16: a next event at the last index and a prev event at index 0 change
\* nothing: selectedIndex, the asset list and the zoom memory, the entry of
\* the current index included, are as before the event
C16_NavAtBoundChangesNothing ==
    [][ ( \/ (selectedIndex # null /\ selectedIndex = Len(images) - 1
                 /\ KeyDown("ArrowRight"))
          \/ (selectedIndex = 0 /\ KeyDown("ArrowLeft")) )
        => UNCHANGED <<selectedIndex, images, zoomStates>> ]_vars

\* C17: when the viewer is mounted on an index it has not shown since the list
\* was set, it centres its content, at mount and when the image has loaded;
\* when it is mounted on an index it has shown before, it does neither and
\* starts from the zoom memory's entry of that index
C17_AutoCenterOnFirstViewOnly ==
    [][ /\ (mounted' /\ transformRef'.key # null /\ transformRef'.key # transformRef.key)
            => IF transformRef'.key \in seen'
               THEN /\ ~transformRef'.centerOnInit
                    /\ transformRef'.key \in DOMAIN zoomStates'
                    /\ transformRef'.initialState = zoomStates'[transformRef'.key]
               ELSE transformRef'.centerOnInit
        /\ ImgLoad => (selectedIndex \notin DOMAIN zoomStates <=> selectedIndex \notin seen)
      ]_vars

\* C18: a published list has the length and the order of the scanner's
\* result: its k-th entry carries the name and handle of the k-th file the
\* scan found and the URL created by that file's read, in whatever order the
\* reads completed
C18_PublishedInDiscoveryOrder ==
    [][ (images' # images /\ images' # <<>>) =>
          /\ Len(images') = Len(scanDirectory(dir))
          /\ \A k \in 1..Len(images') :
                /\ images'[k].handle = scanDirectory(dir)[k].handle
                /\ images'[k].name = scanDirectory(dir)[k].name
                /\ images'[k].url = results[k] ]_vars

\* C18 witness: a list is published whose second file was read before its first
C18_ReadsCompletedOutOfOrder ==
    /\ mounted
    /\ outcome = "published"
    /\ Len(images) >= 2
    /\ Len(completed) = Len(images)
    /\ completed[1] = 2

\* C19: every key of the zoom memory is a valid index of the current asset
\* list, and one the viewer shows or has shown since that list was set; so
\* the zoom memory is empty while the list is empty or nothing has been viewed
C19_ZoomKeysAreViewedIndices ==
    \A k \in DOMAIN zoomStates :
        /\ 0 <= k /\ k < Len(images)
        /\ k \in seen \cup {transformRef.key}

\* C19 witness: with the viewer closed, the zoom memory holds an entry of the
\* list that replaced an earlier one
C19_EntryKeptForSecondList ==
    /\ mounted
    /\ selectedIndex = null
    /\ zoomStates # EmptyZoom
    /\ everListed \ Urls(images) # {}

====
